---- MODULE Spec2Model ----
(***************************************************************************)
(* Model of health_dashboard.py: the SystemMonitor methods (load_config,   *)
(* get_system_info, format_bytes, format_uptime, get_disk_info,            *)
(* get_top_processes, create_progress_bar) and the dashboard command's     *)
(* refresh loop with its alert evaluation.                                 *)
(*                                                                         *)
(* Four specifications share the variables:                                *)
(*   SpecBytes  calls of format_bytes on bounded byte counts               *)
(*   SpecCalls  calls of format_uptime, create_progress_bar,               *)
(*              get_top_processes and get_disk_info on bounded inputs      *)
(*   SpecInit   SystemMonitor.__init__: load_config, get_system_info       *)
(*   SpecDash   the dashboard command: generate_dashboard, sleep, Ctrl+C   *)
(***************************************************************************)
EXTENDS Integers, Sequences, FiniteSets, TLC

VARIABLES
    fn,          \* SystemMonitor method last called directly ("none" before any call)
    arg,         \* its arguments
    res,         \* its return value
    pc,          \* position of the process (SpecInit, SpecDash)
    configFile,  \* ~/.config/health-dashboard/config.json on disk
    config,      \* monitor.config
    system_info, \* monitor.system_info
    sysenv,      \* what the platform answers to get_system_info's reads
    detailed,    \* the dashboard command's --detailed flag
    cpu_info,    \* generate_dashboard's local cpu_info (usage_percent)
    memory_info, \* generate_dashboard's local memory_info (percent)
    disk_info,   \* generate_dashboard's local disk_info
    processes,   \* generate_dashboard's local processes
    alerts,      \* generate_dashboard's local alerts
    shown,       \* what the Live display shows: the footer's alert text, per cycle
    cycles,      \* completed calls of generate_dashboard
    interrupted, \* a KeyboardInterrupt has been delivered
    output,      \* what console.print wrote after the loop
    exitcode     \* the command's exit code ("running" while it runs)

vars == << fn, arg, res, pc, configFile, config, system_info, sysenv, detailed,
           cpu_info, memory_info, disk_info, processes, alerts, shown, cycles,
           interrupted, output, exitcode >>

callVars == << fn, arg, res >>
initVars == << configFile, config, system_info, sysenv >>
dashVars == << detailed, cpu_info, memory_info, disk_info, processes, alerts,
               shown, cycles, interrupted, output, exitcode >>

None == "none"

(***************************************************************************)
(* Bounds of the model.                                                    *)
(***************************************************************************)
MaxDigits == 6    \* byte counts have at most this many base-1024 digits
MaxWidth == 4     \* progress bar widths 0..MaxWidth (and 10, 30)
MaxProcs == 3     \* processes enumerated by the provider
MaxParts == 3     \* partitions enumerated by the provider
MaxCycles == 2    \* refresh cycles counted before the count stops growing
MaxReads == 2     \* partitions, and processes, enumerated in one refresh cycle

(***************************************************************************)
(* Small helpers.                                                          *)
(***************************************************************************)
SeqsUpTo(S, n) == UNION { [1..k -> S] : k \in 0..n }

Repeat(c, k) == [i \in 1..(IF k > 0 THEN k ELSE 0) |-> c]   \* Python's c * k

Count(s, c) == Cardinality({ i \in 1..Len(s) : s[i] = c })

\* Python's int(): truncation toward zero of num / den, den > 0.
TruncDiv(num, den) == IF num >= 0 THEN num \div den ELSE -((-num) \div den)

(***************************************************************************)
(* format_bytes.  A byte count is kept exactly, as its base-1024 digits,   *)
(* least significant first; bytes_value after k divisions by 1024.0 is the *)
(* same digits with k of them behind the point.  (Division by 1024 is      *)
(* exact in binary floating point, and every unit boundary lies below      *)
(* 2^53, so the comparisons of the code are the exact ones.)               *)
(***************************************************************************)
Kilo == 1024

Units == << "B", "KB", "MB", "GB", "TB" >>

\* bytes_value < 1024.0, with `point` digits behind the point
LessThanKilo(digits, point) ==
    \A i \in (point + 2)..Len(digits) : digits[i] = 0

RECURSIVE WholePart(_, _)
\* the integer part of digits / 1024^point
WholePart(digits, point) ==
    IF Len(digits) <= point THEN 0
    ELSE digits[point + 1] + Kilo * WholePart(digits, point + 1)

RECURSIVE TimesTen(_, _, _)
\* ten times the fraction behind the point: the digits of the product's
\* fraction (least significant first) and its integer part 0..9
TimesTen(frac, i, carry) ==
    IF i > Len(frac) THEN [digits |-> << >>, whole |-> carry]
    ELSE LET x == frac[i] * 10 + carry
             rest == TimesTen(frac, i + 1, x \div Kilo)
         IN  [digits |-> << x % Kilo >> \o rest.digits, whole |-> rest.whole]

\* a fraction against one half: -1 below, 0 equal, 1 above
CompareHalf(frac) ==
    IF Len(frac) = 0 THEN -1
    ELSE LET top == frac[Len(frac)]
         IN  IF top > Kilo \div 2 THEN 1
             ELSE IF top < Kilo \div 2 THEN -1
             ELSE IF \E i \in 1..(Len(frac) - 1) : frac[i] # 0 THEN 1 ELSE 0

\* f"{bytes_value:.1f}": the value rounded to one decimal, ties to even
OneDecimal(digits, point) ==
    LET frac == SubSeq(digits, 1, IF point < Len(digits) THEN point ELSE Len(digits))
        padded == frac \o Repeat(0, point - Len(digits))
        t == TimesTen(padded, 1, 0)
        c == CompareHalf(t.digits)
        up == c = 1 \/ (c = 0 /\ t.whole % 2 = 1)
        tenths == IF up THEN t.whole + 1 ELSE t.whole
        whole == WholePart(digits, point)
    IN  IF tenths = 10 THEN [whole |-> whole + 1, tenths |-> 0]
        ELSE [whole |-> whole, tenths |-> tenths]

RECURSIVE FormatBytesLoop(_, _)
\* the for loop from its k-th unit on (k = 1 is 'B'); falls through to PB
FormatBytesLoop(digits, k) ==
    IF k > Len(Units)
    THEN [value |-> OneDecimal(digits, Len(Units)), unit |-> "PB"]
    ELSE IF LessThanKilo(digits, k - 1)
         THEN [value |-> OneDecimal(digits, k - 1), unit |-> Units[k]]
         ELSE FormatBytesLoop(digits, k + 1)

\* a plausible slip: <= in place of <
RECURSIVE FormatBytesLoopLe(_, _)
FormatBytesLoopLe(digits, k) ==
    IF k > Len(Units)
    THEN [value |-> OneDecimal(digits, Len(Units)), unit |-> "PB"]
    ELSE IF \/ LessThanKilo(digits, k - 1)
            \/ /\ Len(digits) >= k + 1
               /\ digits[k + 1] = 1
               /\ \A i \in 1..Len(digits) : i # k + 1 => digits[i] = 0
         THEN [value |-> OneDecimal(digits, k - 1), unit |-> Units[k]]
         ELSE FormatBytesLoopLe(digits, k + 1)

format_bytes_le(bytes_value) == FormatBytesLoopLe(bytes_value, 1)

format_bytes(bytes_value) == FormatBytesLoop(bytes_value, 1)

RECURSIVE KiloPower(_)
\* 1024^k as digits: k zeros, then 1
KiloPower(k) == IF k = 0 THEN << 1 >> ELSE << 0 >> \o KiloPower(k - 1)

ByteDigits == {0, Kilo - 1}

ByteExamples == { << 512, 1 >> }    \* 1536

ByteInputs ==
    (UNION { [1..k -> ByteDigits] : k \in 1..MaxDigits })
        \cup { KiloPower(k) : k \in 0..(MaxDigits - 1) }
        \cup ByteExamples

(***************************************************************************)
(* format_uptime.  Times are whole seconds; datetime.now() is the          *)
(* parameter now.  A timedelta is normalised to days and 0 <= seconds <    *)
(* 86400, days taking the sign.                                            *)
(***************************************************************************)
SecondsPerDay == 86400

timedelta(seconds) ==
    [days |-> seconds \div SecondsPerDay, seconds |-> seconds % SecondsPerDay]

\* the f-strings, as the sequence of their << number, suffix >> parts
format_uptime(boot_time, now) ==
    LET uptime == timedelta(now - boot_time)
        days == uptime.days
        hours == uptime.seconds \div 3600
        remainder == uptime.seconds % 3600
        minutes == remainder \div 60
    IN  IF days > 0
        THEN << << days, "d" >>, << hours, "h" >>, << minutes, "m" >> >>
        ELSE IF hours > 0
             THEN << << hours, "h" >>, << minutes, "m" >> >>
             ELSE << << minutes, "m" >> >>

UptimeBoots == {100000, 200000}

UptimeElapsed ==
    {-90000, -3600, -60, -1, 0, 45, 59, 60, 3599, 3600, 5400, 86399, 86400, 183900}

UptimeInputs == { << b, b + e >> : b \in UptimeBoots, e \in UptimeElapsed }

(***************************************************************************)
(* create_progress_bar.  Percentages are whole numbers here.               *)
(***************************************************************************)
create_progress_bar(percentage, width) ==
    LET filled == TruncDiv(width * percentage, 100)
        bar == Repeat("#", filled) \o Repeat("-", width - filled)
        color == IF percentage < 50 THEN "green"
                 ELSE IF percentage < 80 THEN "yellow"
                 ELSE "red"
    IN  [color |-> color, bar |-> bar, label |-> percentage]

DefaultWidth == 30

BarPercents == {-100, -20, -5, 0, 1, 49, 50, 79, 80, 99, 100, 101, 150}

BarWidths == (0..MaxWidth) \cup {10, DefaultWidth}

(***************************************************************************)
(* get_top_processes.  The provider's enumeration is a sequence of reads;  *)
(* a process's pid is its place in the enumeration.                        *)
(***************************************************************************)
ProcReads ==
    { [read |-> "ok", cpu_percent |-> c] : c \in {1, 2} }
        \cup { [read |-> e, cpu_percent |-> 0] : e \in {"NoSuchProcess", "AccessDenied"} }

ProcEnumerations == SeqsUpTo(ProcReads, MaxProcs)

RECURSIVE ReadProcesses(_, _)
\* the for loop from the i-th process on: the except clause skips a failed read
ReadProcesses(procs, i) ==
    IF i > Len(procs) THEN << >>
    ELSE IF procs[i].read = "ok"
         THEN << [pid |-> i, cpu_percent |-> procs[i].cpu_percent] >>
                  \o ReadProcesses(procs, i + 1)
         ELSE ReadProcesses(procs, i + 1)

RECURSIVE InsertDescending(_, _)
\* x into a list sorted by cpu_percent descending, behind its equals
InsertDescending(sorted, x) ==
    IF sorted = << >> THEN << x >>
    ELSE IF Head(sorted).cpu_percent >= x.cpu_percent
         THEN << Head(sorted) >> \o InsertDescending(Tail(sorted), x)
         ELSE << x >> \o sorted

RECURSIVE SortDescending(_, _)
\* list.sort(key=cpu_percent, reverse=True): stable, equals keep their order
SortDescending(list, i) ==
    IF i = 0 THEN << >>
    ELSE InsertDescending(SortDescending(list, i - 1), list[i])

Slice(list, limit) ==     \* list[:limit], limit >= 0
    SubSeq(list, 1, IF limit < Len(list) THEN limit ELSE Len(list))

RECURSIVE InsertAscending(_, _)
InsertAscending(sorted, x) ==
    IF sorted = << >> THEN << x >>
    ELSE IF Head(sorted).cpu_percent <= x.cpu_percent
         THEN << Head(sorted) >> \o InsertAscending(Tail(sorted), x)
         ELSE << x >> \o sorted

RECURSIVE SortAscending(_, _)
SortAscending(list, i) ==
    IF i = 0 THEN << >>
    ELSE InsertAscending(SortAscending(list, i - 1), list[i])

Reverse(list) == [i \in 1..Len(list) |-> list[Len(list) + 1 - i]]

\* a plausible slip: sort ascending, then reverse (equals come out reversed)
get_top_processes_reversed(procs, limit) ==
    LET read == ReadProcesses(procs, 1)
    IN  Slice(Reverse(SortAscending(read, Len(read))), limit)

get_top_processes(procs, limit) ==
    LET read == ReadProcesses(procs, 1)
    IN  Slice(SortDescending(read, Len(read)), limit)

DefaultLimit == 10

(***************************************************************************)
(* get_disk_info.  A partition's mountpoint is its place in the provider's *)
(* enumeration; sizes are whole numbers whose quotient used / total is a   *)
(* whole percentage.                                                       *)
(***************************************************************************)
PartReads ==
    { [read |-> "ok", total |-> 100, used |-> u] : u \in {90, 91} }
        \cup { [read |-> "ok", total |-> 0, used |-> 0] }
        \cup { [read |-> e, total |-> 0, used |-> 0] : e \in {"PermissionError", "OSError"} }

PartEnumerations == SeqsUpTo(PartReads, MaxParts)

RECURSIVE DiskLoop(_, _, _)
\* the for loop from the i-th partition on, disks being the list so far;
\* used / total raises ZeroDivisionError, which the except clause does not name
DiskLoop(parts, i, disks) ==
    IF i > Len(parts) THEN [raised |-> "no", value |-> disks]
    ELSE IF parts[i].read # "ok" THEN DiskLoop(parts, i + 1, disks)
    ELSE IF parts[i].total = 0 THEN [raised |-> "ZeroDivisionError", value |-> << >>]
    ELSE DiskLoop(parts, i + 1,
             Append(disks, [mountpoint |-> i,
                            total |-> parts[i].total,
                            used |-> parts[i].used,
                            free |-> parts[i].total - parts[i].used,
                            percent |-> (parts[i].used * 100) \div parts[i].total]))

get_disk_info(parts) == DiskLoop(parts, 1, << >>)

(***************************************************************************)
(* Direct calls of the SystemMonitor methods: Init draws the method and    *)
(* its arguments, the action applies it.                                   *)
(***************************************************************************)
Idle ==
    /\ configFile = None /\ config = None /\ system_info = None /\ sysenv = None
    /\ detailed = FALSE /\ cpu_info = None /\ memory_info = None
    /\ disk_info = << >> /\ processes = << >> /\ alerts = << >> /\ shown = << >>
    /\ cycles = 0 /\ interrupted = FALSE /\ output = << >> /\ exitcode = "running"

BytesInit ==
    /\ fn = None /\ arg = << >> /\ res = << >>
    /\ pc = "call"
    /\ Idle

\* format_bytes is called again and again, on any byte count
CallFormatBytes ==
    /\ \E n \in ByteInputs :
         /\ fn' = "format_bytes"
         /\ arg' = << n >>
         /\ res' = format_bytes(n)
    /\ pc' = "returned"
    /\ UNCHANGED << initVars, dashVars >>

BytesNext == CallFormatBytes

SpecBytes == BytesInit /\ [][BytesNext]_vars

LimitInputs == (0..(MaxProcs + 1)) \cup {DefaultLimit}

CallsInit ==
    /\ \/ fn = "format_uptime" /\ arg \in UptimeInputs
       \/ fn = "create_progress_bar" /\ arg \in BarPercents \X BarWidths
       \/ fn = "get_top_processes" /\ arg \in ProcEnumerations \X LimitInputs
       \/ fn = "get_disk_info" /\ arg \in { << p >> : p \in PartEnumerations }
    /\ res = << >>
    /\ pc = "call"
    /\ Idle

CallFormatUptime ==
    /\ pc = "call" /\ fn = "format_uptime"
    /\ res' = format_uptime(arg[1], arg[2])
    /\ pc' = "returned"
    /\ UNCHANGED << fn, arg, initVars, dashVars >>

CallCreateProgressBar ==
    /\ pc = "call" /\ fn = "create_progress_bar"
    /\ res' = create_progress_bar(arg[1], arg[2])
    /\ pc' = "returned"
    /\ UNCHANGED << fn, arg, initVars, dashVars >>

CallGetTopProcesses ==
    /\ pc = "call" /\ fn = "get_top_processes"
    /\ res' = get_top_processes(arg[1], arg[2])
    /\ pc' = "returned"
    /\ UNCHANGED << fn, arg, initVars, dashVars >>

CallGetDiskInfo ==
    /\ pc = "call" /\ fn = "get_disk_info"
    /\ res' = get_disk_info(arg[1])
    /\ pc' = "returned"
    /\ UNCHANGED << fn, arg, initVars, dashVars >>

CallsNext ==
    \/ CallFormatUptime
    \/ CallCreateProgressBar
    \/ CallGetTopProcesses
    \/ CallGetDiskInfo

SpecCalls == CallsInit /\ [][CallsNext]_vars

(***************************************************************************)
(* load_config.  config.json holds JSON text: the members of its object in *)
(* the order written, each << key, kind, value >>, an "object" member      *)
(* holding members in turn.  A text cut short ends in a "truncated"        *)
(* member and does not parse.  writable says whether open(.., 'w')         *)
(* succeeds.                                                               *)
(***************************************************************************)
default_config ==
    [ refresh_interval |-> 2,
      alerts |-> [cpu_threshold |-> 80, ram_threshold |-> 85, disk_threshold |-> 90] ]

\* json.dump of a configuration of default_config's shape
json_dump(cfg) ==
    << << "refresh_interval", "number", cfg.refresh_interval >>,
       << "alerts", "object",
          << << "cpu_threshold", "number", cfg.alerts.cpu_threshold >>,
             << "ram_threshold", "number", cfg.alerts.ram_threshold >>,
             << "disk_threshold", "number", cfg.alerts.disk_threshold >> >> >> >>

Keys(members) == { members[i][1] : i \in 1..Len(members) }

\* the member of a key: the last one written wins
Member(members, key) ==
    LET last == CHOOSE i \in 1..Len(members) :
                    /\ members[i][1] = key
                    /\ \A j \in (i + 1)..Len(members) : members[j][1] # key
    IN  members[last]

Truncated(members) == \E i \in 1..Len(members) : members[i][2] = "truncated"

JsonParses(text) ==
    /\ ~Truncated(text)
    /\ \A i \in 1..Len(text) : text[i][2] = "object" => ~Truncated(text[i][3])

JsonFlat(members) == [k \in Keys(members) |-> Member(members, k)[3]]

\* json.load of a text that parses
json_load(text) ==
    [k \in Keys(text) |->
        IF Member(text, k)[2] = "object"
        THEN JsonFlat(Member(text, k)[3])
        ELSE Member(text, k)[3]]

\* load_config on the file as found: whether it raised, what it returned and
\* the file it leaves
load_config(file) ==
    IF file.exists /\ JsonParses(file.text)
    THEN [raised |-> "no", value |-> json_load(file.text), file |-> file]
    ELSE IF file.writable
         THEN [raised |-> "no", value |-> default_config,
               file |-> [exists |-> TRUE, text |-> json_dump(default_config),
                         writable |-> TRUE]]
         ELSE [raised |-> "PermissionError", value |-> None, file |-> file]

custom_config ==
    [ refresh_interval |-> 5,
      alerts |-> [cpu_threshold |-> 50, ram_threshold |-> 60, disk_threshold |-> 70] ]

ConfigTexts ==
    { json_dump(default_config),
      json_dump(custom_config),
      << << "refresh_interval", "number", 2 >>, << "alerts", "truncated", << >> >> >> }

ConfigFiles ==
    { [exists |-> FALSE, text |-> << >>, writable |-> w] : w \in BOOLEAN }
        \cup { [exists |-> TRUE, text |-> t, writable |-> w] :
                 t \in ConfigTexts, w \in BOOLEAN }

(***************************************************************************)
(* get_system_info.  env is what the platform answers: the step that       *)
(* raises (or none), what reading /etc/os-release gives, and the readings. *)
(***************************************************************************)
OuterSteps ==
    { "import", "system", "release", "node", "cpu_count", "virtual_memory", "boot_time" }

fallback_info(now) ==
    [ os |-> "Unknown", kernel |-> "Unknown", hostname |-> "localhost",
      cpu_count |-> 1, total_memory |-> 0, boot_time |-> now, is_cachyos |-> FALSE ]

\* a plausible slip: each reading guarded on its own, so that one failed read
\* falls back alone
get_system_info_fieldwise(env, now) ==
    LET is_cachyos == env.os_release = "cachyos" /\ env.fails # "import"
        fb == fallback_info(now)
        Read(step, value, fallback) == IF env.fails \in {"import", step} THEN fallback ELSE value
    IN  [ os |-> IF is_cachyos THEN "CachyOS Linux" ELSE Read("system", env.system, fb.os),
          kernel |-> Read("release", env.release, fb.kernel),
          hostname |-> Read("node", env.node, fb.hostname),
          cpu_count |-> Read("cpu_count", env.cpu_count, fb.cpu_count),
          total_memory |-> Read("virtual_memory", env.total_memory, fb.total_memory),
          boot_time |-> Read("boot_time", env.boot_time, fb.boot_time),
          is_cachyos |-> is_cachyos ]

get_system_info(env, now) ==
    IF env.fails \in {"import", "system"} THEN fallback_info(now)
    ELSE LET is_cachyos == env.os_release = "cachyos"
             os_name == IF is_cachyos THEN "CachyOS Linux" ELSE env.system
         IN  IF env.fails \in OuterSteps THEN fallback_info(now)
             ELSE [ os |-> os_name, kernel |-> env.release, hostname |-> env.node,
                    cpu_count |-> env.cpu_count, total_memory |-> env.total_memory,
                    boot_time |-> env.boot_time, is_cachyos |-> is_cachyos ]

Environments ==
    { [ mkdir |-> m, fails |-> f, os_release |-> r, system |-> s,
        release |-> "6.1", node |-> "host", cpu_count |-> 8,
        total_memory |-> 16, boot_time |-> 400000, now |-> 500000 ] :
      m \in {"ok", "PermissionError"}, f \in OuterSteps \cup {"none"},
      r \in {"unreadable", "cachyos", "other"}, s \in {"Linux", "Darwin"} }

(***************************************************************************)
(* SystemMonitor.__init__, run at import, and the process run again.       *)
(***************************************************************************)
StartInit ==
    /\ pc = "mkdir"
    /\ configFile \in ConfigFiles
    /\ sysenv \in Environments
    /\ config = None /\ system_info = None
    /\ fn = None /\ arg = << >> /\ res = << >>
    /\ detailed = FALSE /\ cpu_info = None /\ memory_info = None
    /\ disk_info = << >> /\ processes = << >> /\ alerts = << >> /\ shown = << >>
    /\ cycles = 0 /\ interrupted = FALSE /\ output = << >> /\ exitcode = "running"

\* the two mkdir(parents=True, exist_ok=True): a failure ends the process
MakeDirs ==
    /\ pc = "mkdir"
    /\ IF sysenv.mkdir = "ok"
       THEN pc' = "load_config" /\ UNCHANGED exitcode
       ELSE pc' = "failed" /\ exitcode' = 1
    /\ UNCHANGED << callVars, initVars, detailed, cpu_info, memory_info, disk_info,
                    processes, alerts, shown, cycles, interrupted, output >>

\* self.config = self.load_config(); fn, arg and res keep the call
LoadConfig ==
    /\ pc = "load_config"
    /\ LET r == load_config(configFile)
       IN  /\ fn' = "load_config" /\ arg' = << configFile >> /\ res' = r
           /\ configFile' = r.file
           /\ IF r.raised = "no"
              THEN config' = r.value /\ pc' = "get_system_info" /\ UNCHANGED exitcode
              ELSE UNCHANGED config /\ pc' = "failed" /\ exitcode' = 1
    /\ UNCHANGED << system_info, sysenv, detailed, cpu_info, memory_info, disk_info,
                    processes, alerts, shown, cycles, interrupted, output >>

\* self.system_info = self.get_system_info()
GetSystemInfo ==
    /\ pc = "get_system_info"
    /\ system_info' = get_system_info(sysenv, sysenv.now)
    /\ pc' = "ready"
    /\ UNCHANGED << callVars, configFile, config, sysenv, dashVars >>

\* the process ends and is started again on the same machine, finding the
\* file the last run left
Restart ==
    /\ pc \in {"ready", "failed"}
    /\ pc' = "mkdir"
    /\ config' = None /\ system_info' = None
    /\ fn' = None /\ arg' = << >> /\ res' = << >>
    /\ exitcode' = "running"
    /\ UNCHANGED << configFile, sysenv, detailed, cpu_info, memory_info, disk_info,
                    processes, alerts, shown, cycles, interrupted, output >>

InitNext == MakeDirs \/ LoadConfig \/ GetSystemInfo \/ Restart

SpecInit == StartInit /\ [][InitNext]_vars

(***************************************************************************)
(* The dashboard command.  generate_dashboard is followed read by read, so *)
(* that Ctrl+C can arrive between any two of them; the layout it builds is *)
(* kept as the footer's alert text.  get_cpu_info and get_memory_info are  *)
(* kept as the one field the alerts read.                                  *)
(***************************************************************************)
CpuAlertLimit == 80

MemoryAlertLimit == 85

ShownProcesses == 5

CpuReadings == {60, 80, 81}

MemoryReadings == {70, 85, 86}

\* "Check for alerts": the alerts list, each alert its kind, value and limit
check_alerts(cpu, memory) ==
    (IF cpu.usage_percent > CpuAlertLimit
     THEN << [kind |-> "cpu", value |-> cpu.usage_percent, limit |-> CpuAlertLimit] >>
     ELSE << >>)
    \o
    (IF memory.percent > MemoryAlertLimit
     THEN << [kind |-> "memory", value |-> memory.percent, limit |-> MemoryAlertLimit] >>
     ELSE << >>)

\* " | ".join(alerts) if alerts else "All systems normal"
alert_text(list) == IF list # << >> THEN list ELSE << "All systems normal" >>

Running == {"cpu", "memory", "disk", "processes", "footer", "sleep"}

DashInit ==
    /\ pc = "cpu"
    /\ config \in {default_config, custom_config}
    /\ detailed \in BOOLEAN
    /\ configFile = None /\ system_info = None /\ sysenv = None
    /\ fn = None /\ arg = << >> /\ res = << >>
    /\ cpu_info = None /\ memory_info = None
    /\ disk_info = << >> /\ processes = << >> /\ alerts = << >> /\ shown = << >>
    /\ cycles = 0 /\ interrupted = FALSE /\ output = << >> /\ exitcode = "running"

GetCpuInfo ==
    /\ pc = "cpu"
    /\ \E u \in CpuReadings : cpu_info' = [usage_percent |-> u]
    /\ pc' = "memory"
    /\ UNCHANGED << callVars, initVars, detailed, memory_info, disk_info, processes,
                    alerts, shown, cycles, interrupted, output, exitcode >>

GetMemoryInfo ==
    /\ pc = "memory"
    /\ \E m \in MemoryReadings : memory_info' = [percent |-> m]
    /\ pc' = "disk"
    /\ UNCHANGED << callVars, initVars, detailed, cpu_info, disk_info, processes,
                    alerts, shown, cycles, interrupted, output, exitcode >>

\* disk_info = monitor.get_disk_info(): an exception it raises is not caught
\* by the command, and ends the process with a traceback
GetDiskInfo ==
    /\ pc = "disk"
    /\ \E parts \in SeqsUpTo(PartReads, MaxReads) :
         LET r == get_disk_info(parts)
         IN  IF r.raised = "no"
             THEN /\ disk_info' = r.value
                  /\ pc' = IF detailed THEN "processes" ELSE "footer"
                  /\ UNCHANGED exitcode
             ELSE /\ pc' = "crashed"
                  /\ exitcode' = 1
                  /\ UNCHANGED disk_info
    /\ UNCHANGED << callVars, initVars, detailed, cpu_info, memory_info, processes,
                    alerts, shown, cycles, interrupted, output >>

\* processes = monitor.get_top_processes(5), under --detailed
GetTopProcesses ==
    /\ pc = "processes"
    /\ \E procs \in SeqsUpTo(ProcReads, MaxReads) :
         processes' = get_top_processes(procs, ShownProcesses)
    /\ pc' = "footer"
    /\ UNCHANGED << callVars, initVars, detailed, cpu_info, memory_info, disk_info,
                    alerts, shown, cycles, interrupted, output, exitcode >>

\* the footer with its alerts; the layout is returned and shown
Footer ==
    /\ pc = "footer"
    /\ alerts' = check_alerts(cpu_info, memory_info)
    /\ shown' = alert_text(check_alerts(cpu_info, memory_info))
    /\ cycles' = IF cycles < MaxCycles THEN cycles + 1 ELSE cycles
    /\ pc' = "sleep"
    /\ UNCHANGED << callVars, initVars, detailed, cpu_info, memory_info, disk_info,
                    processes, interrupted, output, exitcode >>

\* time.sleep(2) returns and generate_dashboard is called again, its locals new
Sleep ==
    /\ pc = "sleep"
    /\ pc' = "cpu"
    /\ cpu_info' = None /\ memory_info' = None
    /\ disk_info' = << >> /\ processes' = << >> /\ alerts' = << >>
    /\ UNCHANGED << callVars, initVars, detailed, shown, cycles, interrupted,
                    output, exitcode >>

\* Ctrl+C anywhere inside the try block: the except clause prints and the
\* command returns
KeyboardInterrupt ==
    /\ pc \in Running
    /\ interrupted' = TRUE
    /\ output' = << "Dashboard stopped" >>
    /\ exitcode' = 0
    /\ pc' = "stopped"
    /\ UNCHANGED << callVars, initVars, detailed, cpu_info, memory_info, disk_info,
                    processes, alerts, shown, cycles >>

DashNext ==
    \/ GetCpuInfo
    \/ GetMemoryInfo
    \/ GetDiskInfo
    \/ GetTopProcesses
    \/ Footer
    \/ Sleep
    \/ KeyboardInterrupt

SpecDash == DashInit /\ [][DashNext]_vars

(***************************************************************************)
(* Properties of the SystemMonitor methods.                                *)
(***************************************************************************)
Returned(name) == pc = "returned" /\ fn = name

Min(S) == CHOOSE x \in S : \A y \in S : x <= y

Digit(n, i) == IF i <= Len(n) THEN n[i] ELSE 0

\* a < b as numbers, both given by their base-1024 digits
NumLess(a, b) ==
    LET len == IF Len(a) > Len(b) THEN Len(a) ELSE Len(b)
    IN  \E i \in 1..len :
            /\ Digit(a, i) < Digit(b, i)
            /\ \A j \in (i + 1)..len : Digit(a, j) = Digit(b, j)

AllUnits == << "B", "KB", "MB", "GB", "TB", "PB" >>

UnitIndex(unit) == CHOOSE k \in 0..5 : AllUnits[k + 1] = unit

\* the least k with n / 1024^k < 1024, or PB's index when there is none below it
LeastUnit(n) ==
    LET fits == { k \in 0..4 : NumLess(n, KiloPower(k + 1)) }
    IN  IF fits = {} THEN 5 ELSE Min(fits)

\* C5: format_bytes picks the least unit in which the value is below 1024 (PB
\* when there is none), and a byte count no smaller than the one of the call
\* before never gets a smaller unit.
C5_FormatBytesUnit ==
    [][ fn' = "format_bytes" =>
          /\ UnitIndex(res'.unit) = LeastUnit(arg'[1])
          /\ (fn = "format_bytes" /\ ~NumLess(arg'[1], arg[1]))
                => UnitIndex(res.unit) <= UnitIndex(res'.unit) ]_vars

\* 1024 bytes came out as 1.0 KB
C5_Witness ==
    /\ Returned("format_bytes")
    /\ arg = << KiloPower(1) >>
    /\ res = [value |-> [whole |-> 1, tenths |-> 0], unit |-> "KB"]

Clamp(percent) == IF percent < 0 THEN 0 ELSE IF percent > 100 THEN 100 ELSE percent

\* C3: the bar has exactly width cells, floor(width * clamp(percent) / 100) of
\* them filled, whatever the percentage.
C3_BarClamped ==
    Returned("create_progress_bar") =>
        /\ Len(res.bar) = arg[2]
        /\ Count(res.bar, "#") = (arg[2] * Clamp(arg[1])) \div 100
        /\ Count(res.bar, "-") = arg[2] - (arg[2] * Clamp(arg[1])) \div 100

\* the days, hours and minutes of an elapsed time, as the claim renders them
RenderElapsed(elapsed) ==
    LET d == elapsed \div 86400
        h == (elapsed % 86400) \div 3600
        m == (elapsed % 3600) \div 60
    IN  IF d > 0 THEN << << d, "d" >>, << h, "h" >>, << m, "m" >> >>
        ELSE IF h > 0 THEN << << h, "h" >>, << m, "m" >> >>
        ELSE << << m, "m" >> >>

\* C4: format_uptime renders the elapsed days, hours and minutes, a negative
\* elapsed time counting as zero ("0m").
C4_UptimeFormat ==
    Returned("format_uptime") =>
        res = RenderElapsed(IF arg[2] < arg[1] THEN 0 ELSE arg[2] - arg[1])

OkReads(reads) == { i \in 1..Len(reads) : reads[i].read = "ok" }

\* C6: get_disk_info does not raise, and returns one entry per partition whose
\* usage read succeeded, in the provider's order.
C6_DiskInfoBestEffort ==
    Returned("get_disk_info") =>
        /\ res.raised = "no"
        /\ Len(res.value) = Cardinality(OkReads(arg[1]))
        /\ { res.value[i].mountpoint : i \in 1..Len(res.value) } = OkReads(arg[1])
        /\ \A i, j \in 1..Len(res.value) :
               i < j => res.value[i].mountpoint < res.value[j].mountpoint

\* p comes before q in the stable descending order
Before(p, q) ==
    \/ p.cpu_percent > q.cpu_percent
    \/ p.cpu_percent = q.cpu_percent /\ p.pid < q.pid

Readable(procs) ==
    { [pid |-> i, cpu_percent |-> procs[i].cpu_percent] : i \in OkReads(procs) }

DocumentedDefaults ==
    [ refresh_interval |-> 2,
      alerts |-> [cpu_threshold |-> 80, ram_threshold |-> 85, disk_threshold |-> 90],
      display |-> [show_processes |-> TRUE, process_count |-> 10] ]

Unusable(file) == ~file.exists \/ ~JsonParses(file.text)

\* C7: load_config does not raise whatever config.json is; it returns the
\* documented defaults when the file is absent or does not parse; and an
\* absent file is written so that loading it gives the documented defaults.
C7_LoadConfigDefaults ==
    fn = "load_config" =>
        /\ res.raised = "no"
        /\ Unusable(arg[1]) => res.value = DocumentedDefaults
        /\ ~arg[1].exists =>
               /\ configFile.exists
               /\ JsonParses(configFile.text)
               /\ json_load(configFile.text) = DocumentedDefaults

\* C10 as stated: any failed step, the read of /etc/os-release among them,
\* gives the fallback in every field.
C10_AllOrNothing ==
    (pc = "ready" /\ (sysenv.fails # "none" \/ sysenv.os_release = "unreadable"))
        => system_info = fallback_info(sysenv.now)

\* the readings of the platform, as get_system_info reports them
Readings(env) ==
    [ os |-> IF env.os_release = "cachyos" THEN "CachyOS Linux" ELSE env.system,
      kernel |-> env.release, hostname |-> env.node, cpu_count |-> env.cpu_count,
      total_memory |-> env.total_memory, boot_time |-> env.boot_time,
      is_cachyos |-> env.os_release = "cachyos" ]

\* C10, amended: a failed step other than the read of /etc/os-release gives the
\* fallback in every field; with no such failure the readings are returned in
\* every field, an unreadable /etc/os-release leaving the platform's name as os
\* and is_cachyos false.
C10_FallbackUnlessOsRelease ==
    pc = "ready" =>
        /\ sysenv.fails # "none" => system_info = fallback_info(sysenv.now)
        /\ sysenv.fails = "none" => system_info = Readings(sysenv)
        /\ (sysenv.fails = "none" /\ sysenv.os_release = "unreadable") =>
               /\ system_info.os = sysenv.system
               /\ system_info.is_cachyos = FALSE
               /\ system_info.kernel = sysenv.release

\* the boot time could not be read after CachyOS had been detected, and every
\* field is the fallback
C10_Witness ==
    /\ pc = "ready"
    /\ sysenv.fails = "boot_time" /\ sysenv.os_release = "cachyos"
    /\ system_info = fallback_info(sysenv.now)

(***************************************************************************)
(* Properties of the dashboard command.                                    *)
(***************************************************************************)
HasAlert(kind) == \E i \in 1..Len(alerts) : alerts[i].kind = kind

\* C1: in every cycle the CPU alert is raised exactly when usage_percent
\* exceeds the configured alerts.cpu_threshold, the memory alert exactly when
\* percent exceeds the configured alerts.ram_threshold.
C1_AlertsFollowConfig ==
    pc = "sleep" =>
        /\ HasAlert("cpu") <=> cpu_info.usage_percent > config.alerts.cpu_threshold
        /\ HasAlert("memory") <=> memory_info.percent > config.alerts.ram_threshold

\* C2: in every cycle each mount of the snapshot has a disk alert exactly when
\* its percent exceeds the configured alerts.disk_threshold.
C2_DiskAlerts ==
    pc = "sleep" =>
        \A d \in 1..Len(disk_info) :
            (\E i \in 1..Len(alerts) :
                 /\ alerts[i].kind = "disk"
                 /\ alerts[i].value = disk_info[d].percent)
            <=> disk_info[d].percent > config.alerts.disk_threshold

\* C8: the command ends only by Ctrl+C, and then with the final message and
\* exit code 0.
C8_EndsOnlyByInterrupt ==
    pc \notin Running =>
        /\ interrupted
        /\ output = << "Dashboard stopped" >>
        /\ exitcode = 0

====
